---------------------------- MODULE Spec2Model ----------------------------
(***************************************************************************)
(* jack_meter.c: LCD peak meter for JACK.                                  *)
(*                                                                         *)
(* Three execution contexts are modelled:                                  *)
(*   - the display loop of main(): check_cmd, update_display, fsleep;      *)
(*   - the JACK process callback process_peak (one sample at a time, the   *)
(*     compare and the store of info->peak being separate steps);          *)
(*   - the JACK xrun callback increment_xrun (the load and the store of    *)
(*     xrun_count++ being separate steps, then display_xrun).              *)
(* Amplitudes are fixed-point numbers in units of 1/10000 (10000 = 1.0),   *)
(* decibel values are in tenths of a dB, and the deflection of iec_scale   *)
(* is kept in units of 1/40 percent so that all arithmetic is exact.       *)
(***************************************************************************)
EXTENDS Integers, Sequences, FiniteSets

(* ------------------------------ bounds -------------------------------- *)

\* largest update rate (-f) the configurations range over
MaxRate == 2
\* largest wall-clock second the model lets time() reach
MaxTime == 1
\* overrun notifications are delivered while xrun_count is below this
MaxXrun == 2
\* frames per process_peak period
MaxFrames == 1
\* the inputs of iec_scale range from 5 * MaxStepsBelow tenths of a dB below 0
\* to 5 * MaxStepsAbove tenths above 0, and over the widths 0 .. MaxWidth
MaxStepsBelow == 144
MaxStepsAbove == 4
MaxWidth == 20
\* the count of buffers overwritten by one drain stops at MaxLost
MaxLost == 2

(* --------------------------- program constants ------------------------ *)

CONSOLE_WIDTH == 20
DISPLAY_WIDTH == CONSOLE_WIDTH + 6
DISPLAY_SIZE(s) == s + 6
MAX_CHANNELS == 2

\* character codes
CMD_NO_DISPLAY == 48
CMD_ONE_DISPLAY == 49
CMD_TWO_DISPLAY == 50
CMD_STOP_RECORDING == 114
CMD_START_RECORDING == 82
CMD_EXIT == 120
\* (char) EOF, what fgetc leaves in cmd when the fifo has no data
EOF_CHAR == -1
\* a byte that is no command ('q')
OTHER_BYTE == 113
\* '2' and '3': the status row and the row of channel_info[].channel = 0
STATUS_ROW == 50
FIRST_METER_ROW == 51

Channels == 0 .. (MAX_CHANNELS - 1)

\* sample amplitudes of the audio buffers: silence, -40 dB, full scale
Samples == {0, 100, 10000}
\* reference levels (-r) in tenths of a dB; bias = 10^(-ref_lev/20)
RefLevels == {0}

\* db of a silent interval: 20*log10f(0) = -inf
NegInf == -100000

Min(a, b) == IF a < b THEN a ELSE b

(* --------------------------- pure functions --------------------------- *)

\* 20*log10f(a) in tenths of a dB, for an amplitude a > 0 in 1/10000 units
Log10x200(a) ==
    CASE a = 1 -> -800
      [] a = 10 -> -600
      [] a = 100 -> -400
      [] a = 1000 -> -200
      [] a = 3162 -> -100
      [] a = 10000 -> 0
      [] a = 20000 -> 60
      [] OTHER -> 0

\* info->db = 20.0f * log10f(info->last_peak * bias), bias = 10^(-ref/20)
Decibels(last_peak, ref) ==
    IF last_peak = 0 THEN NegInf ELSE Log10x200(last_peak) - ref

\* iec_scale without its first band: no deflection of 0 below -70 dB
DeflectionNoFloor(db) ==
    IF db < -600 THEN db + 700
    ELSE IF db < -500 THEN 2 * (db + 600) + 100
    ELSE IF db < -400 THEN 3 * (db + 500) + 300
    ELSE IF db < -300 THEN 6 * (db + 400) + 600
    ELSE IF db < -200 THEN 8 * (db + 300) + 1200
    ELSE IF db < 0 THEN 10 * (db + 200) + 2000
    ELSE 4000

\* iec_scale with the offset of the -50 dB band written 0.75 for 7.5
DeflectionBandSlip(db) ==
    IF db < -700 THEN 0
    ELSE IF db < -600 THEN db + 700
    ELSE IF db < -500 THEN 2 * (db + 600) + 100
    ELSE IF db < -400 THEN 3 * (db + 500) + 30
    ELSE IF db < -300 THEN 6 * (db + 400) + 600
    ELSE IF db < -200 THEN 8 * (db + 300) + 1200
    ELSE IF db < 0 THEN 10 * (db + 200) + 2000
    ELSE 4000

\* deflection of iec_scale in units of 1/40 percent, db in tenths of a dB
Deflection40(db) ==
    IF db < -700 THEN 0
    ELSE IF db < -600 THEN db + 700
    ELSE IF db < -500 THEN 2 * (db + 600) + 100
    ELSE IF db < -400 THEN 3 * (db + 500) + 300
    ELSE IF db < -300 THEN 6 * (db + 400) + 600
    ELSE IF db < -200 THEN 8 * (db + 300) + 1200
    ELSE IF db < 0 THEN 10 * (db + 200) + 2000
    ELSE 4000

iec_scale(db, size) == (Deflection40(db) * size) \div 4000

\* the decibel values iec_scale is called with: a grid of half decibels
\* around the bands of the curve, and the db of a silent interval
ScaleDbs == {5 * k : k \in (0 - MaxStepsBelow) .. MaxStepsAbove} \cup {NegInf}

\* the widths iec_scale is called with
ScaleWidths == 0 .. MaxWidth

\* decay_len = (int) (1.6f / (1.0f / update_rate))
DecayLen(rate) == (16 * rate) \div 10

\* channels after the connection loop of main: argc - optind ports named
ChannelsAfterStartup(ports) == IF ports > 0 THEN Min(ports, MAX_CHANNELS) ELSE MAX_CHANNELS

\* channel_info[c].channel after the memset and the connection loop of main
ChannelField(ports, c) == IF c < ports THEN c ELSE 0

(* ------------------------------- state -------------------------------- *)

VARIABLES
    \* display loop: position, check_cmd's cmd and return value, the loop
    \* index of update_display, the writes of the current call
    pc, cmd, rv, uch, log,
    \* struct display_info_t
    recording, xrun_count, start_time, elapsed_seconds, channels_displaying,
    decibels_mode, update_rate, ref_lev, xrun_len,
    \* struct channel_info_t channel_info[MAX_CHANNELS]
    chan, dpeak, dtime, peak, last_peak, db,
    \* globals
    channels, decay_len,
    \* process_peak: position, channel, frame index i, sample s
    ppc, pch, pfr, ps,
    \* increment_xrun: position, the loaded value of xrun_count
    xpc, xtmp,
    \* time(NULL)
    now,
    \* the context of the last write(lcd, ...): "none", "loop" or "xrun"
    lcd_writer,
    \* per channel: render ticks since dpeak was last assigned / last snapped up
    age, snapAge,
    \* the display device (int lcd) and the control stream (FILE *fifo)
    lcd, fifo,
    \* the buffers (calls of process_peak) that stored a peak of channel uch
    \* between the two steps of its drain, and whether the call in progress
    \* is one of them
    lost, pcounted,
    \* iec_scale called on its own: the arguments <<db1, db2, size>> and the
    \* two results
    sc_in, sc_out

programVars == <<pc, cmd, rv, uch, log, recording, xrun_count, start_time,
          elapsed_seconds, channels_displaying, decibels_mode, update_rate,
          ref_lev, xrun_len, chan, dpeak, dtime, peak, last_peak, db,
          channels, decay_len, ppc, pch, pfr, ps, xpc, xtmp, now, lcd_writer,
          age, snapAge, lcd, fifo, lost, pcounted>>

scaleVars == <<sc_in, sc_out>>

vars == <<programVars, scaleVars>>

infoVars == <<recording, xrun_count, start_time, elapsed_seconds,
              channels_displaying, xrun_len>>
configVars == <<decibels_mode, update_rate, ref_lev, chan, channels, decay_len,
                lcd, fifo>>
meterVars == <<dpeak, dtime, last_peak, db, age, snapAge>>
raceVars == <<lost, pcounted>>
processVars == <<ppc, pch, pfr, ps>>
xrunVars == <<xpc, xtmp>>
loopVars == <<pc, cmd, rv, uch, log>>

\* no command byte held
NoCmd == 0

\* the state main() is in when it first evaluates check_cmd
InitProgram ==
    /\ pc = "check_cmd" /\ cmd = NoCmd /\ rv = 1 /\ uch = 0 /\ log = <<>>
    /\ recording = 0 /\ xrun_count = 0 /\ start_time = 0 /\ elapsed_seconds = 0
    /\ channels_displaying = 0 /\ xrun_len = 0
    /\ decibels_mode \in {0, 1}
    /\ update_rate \in 1 .. MaxRate
    /\ ref_lev \in RefLevels
    /\ \E ports \in 0 .. MAX_CHANNELS :
          /\ channels = ChannelsAfterStartup(ports)
          /\ chan = [c \in Channels |-> ChannelField(ports, c)]
    /\ decay_len = DecayLen(update_rate)
    /\ dpeak = [c \in Channels |-> 0] /\ dtime = [c \in Channels |-> 0]
    /\ peak = [c \in Channels |-> 0] /\ last_peak = [c \in Channels |-> 0]
    /\ db = [c \in Channels |-> 0]
    /\ ppc = "idle" /\ pch = 0 /\ pfr = 0 /\ ps = 0
    /\ xpc = "idle" /\ xtmp = 0
    /\ now = 0
    /\ lcd_writer = "none"
    /\ age = [c \in Channels |-> 0] /\ snapAge = [c \in Channels |-> 0]
    /\ lcd = "open" /\ fifo = "open"
    /\ lost = 0 /\ pcounted = FALSE

\* iec_scale is not called on its own
ScaleIdle == sc_in = <<>> /\ sc_out = <<>>

Init == InitProgram /\ ScaleIdle

(* --------------------------- display renderer ------------------------- *)

\* write_buffer_to_lcd from the display loop: the write joins the call's log
LoopWrite(w) ==
    /\ log' = Append(log, w)
    /\ lcd_writer' = w.ctx

\* clear_display: nothing unless channels are displayed; else at row '3' a
\* clear-screen-to-end (two channels) or a clear-line (one channel)
ClearDisplayWrites(ctx, displaying) ==
    IF displaying > 0
    THEN << [ctx |-> ctx,
             kind |-> IF displaying = 2 THEN "clear_screen" ELSE "clear_line",
             row |-> FIRST_METER_ROW, col |-> 48, len |-> DISPLAY_SIZE(4),
             val |-> 0, pos |-> 0] >>
    ELSE << >>

\* clear_recording_status: a clear-line at row '2'
ClearRecordingStatusWrite(ctx) ==
    [ctx |-> ctx, kind |-> "clear_line", row |-> STATUS_ROW, col |-> 48,
     len |-> DISPLAY_SIZE(4), val |-> 0, pos |-> 0]

\* number of characters of "%d" for n >= 0
Digits(n) == IF n < 10 THEN 1 ELSE IF n < 100 THEN 2 ELSE 3

\* sprintf(display_text, "X: %d", xrun_count)
XrunTextLen(n) == 3 + Digits(n)

\* display_xrun once its guard has passed
DisplayXrunWrite(ctx, count) ==
    [ctx |-> ctx, kind |-> "xrun", row |-> STATUS_ROW, col |-> 48,
     len |-> DISPLAY_SIZE(XrunTextLen(count)), val |-> count, pos |-> 0]

\* the guard of display_xrun
DisplayXrunGuard(displaying, rec) == displaying # 0 /\ rec # 0

\* display_time: "  T:%02i:%02i" at row '2', column '1' + xrun_len
DisplayTimeWrite(ctx, elapsed, xlen) ==
    [ctx |-> ctx, kind |-> "time", row |-> STATUS_ROW, col |-> 49 + xlen,
     len |-> DISPLAY_SIZE(9), val |-> elapsed, pos |-> 0]

\* display_meter's line: size meter characters, the peak character at dpk
DisplayMeterWrite(ctx, channel, size, dpk) ==
    [ctx |-> ctx, kind |-> "meter", row |-> FIRST_METER_ROW + channel,
     col |-> 48, len |-> DISPLAY_WIDTH, val |-> size, pos |-> dpk]

\* display_db's line: the decibel value
DisplayDbWrite(ctx, channel, d) ==
    [ctx |-> ctx, kind |-> "db", row |-> FIRST_METER_ROW + channel,
     col |-> 48, len |-> DISPLAY_WIDTH, val |-> d, pos |-> 0]

\* display_meter without the dtime = 0 of the snap
PeakHoldNoReset(size, dpk, dtm, decay) ==
    IF size > dpk THEN <<size, dtm>>
    ELSE IF dtm > decay THEN <<size, dtm + 1>>
    ELSE <<dpk, dtm + 1>>

\* display_meter without the test against decay_len
PeakHoldNoHold(size, dpk, dtm, decay) ==
    IF size > dpk THEN <<size, 0>> ELSE <<size, dtm + 1>>

\* the peak-hold update of display_meter: <<dpeak, dtime>> after the tick
PeakHold(size, dpk, dtm, decay) ==
    IF size > dpk THEN <<size, 0>>
    ELSE IF dtm > decay THEN <<size, dtm + 1>>
    ELSE <<dpk, dtm + 1>>

\* dtime only matters through dtime > decay_len: it is kept up to this cap
DtimeCap(decay) == decay + 1

(* ------------------- check_cmd (display loop context) ----------------- *)

\* check_cmd with a read error taken for the exit request
CheckCmdResultErrorStops(err, c) == IF err \/ c = CMD_EXIT THEN 0 ELSE 1

\* the value check_cmd returns: 1 after a read error (the switch is skipped)
\* and after every byte but 'x'
CheckCmdResult(err, c) == IF err THEN 1 ELSE IF c = CMD_EXIT THEN 0 ELSE 1

\* the digit taken as a count from one
ChannelsForFromOne(c) == c - CMD_NO_DISPLAY + 1

\* channels_displaying after the display command byte c ('0', '1', '2')
ChannelsFor(c) == c - CMD_NO_DISPLAY

\* check_cmd returns to the while condition of main
Return(value) ==
    /\ pc' = "ret"
    /\ rv' = value

\* fgetc fails: ferror is set, the error is logged, the switch is skipped
CmdReadError ==
    /\ pc = "check_cmd"
    /\ cmd' = EOF_CHAR
    /\ log' = <<>>
    /\ Return(CheckCmdResult(TRUE, EOF_CHAR))
    /\ UNCHANGED <<uch, infoVars, configVars, scaleVars, raceVars, meterVars, peak, processVars,
                   xrunVars, now, lcd_writer>>

\* no data (EOF), or a byte that is no command: no case of the switch
CmdIgnored ==
    /\ pc = "check_cmd"
    /\ \E c \in {EOF_CHAR, OTHER_BYTE} : cmd' = c
    /\ log' = <<>>
    /\ Return(CheckCmdResult(FALSE, cmd'))
    /\ UNCHANGED <<uch, infoVars, configVars, scaleVars, raceVars, meterVars, peak, processVars,
                   xrunVars, now, lcd_writer>>

\* '0', '1', '2': clear_display with the old channels_displaying
CmdChannels ==
    /\ pc = "check_cmd"
    /\ \E c \in {CMD_NO_DISPLAY, CMD_ONE_DISPLAY, CMD_TWO_DISPLAY} : cmd' = c
    /\ LET ws == ClearDisplayWrites("loop", channels_displaying)
       IN  /\ log' = ws
           /\ lcd_writer' = IF ws = <<>> THEN lcd_writer ELSE ws[1].ctx
    /\ pc' = "set_channels"
    /\ UNCHANGED <<rv, uch, infoVars, configVars, scaleVars, raceVars, meterVars, peak, processVars,
                   xrunVars, now>>

\* display_info->channels_displaying = 0, 1 or 2; break; return 1
SetChannels ==
    /\ pc = "set_channels"
    /\ channels_displaying' = ChannelsFor(cmd)
    /\ Return(CheckCmdResult(FALSE, cmd))
    /\ UNCHANGED <<cmd, uch, log, recording, xrun_count, start_time,
                   elapsed_seconds, xrun_len, configVars, scaleVars, raceVars, meterVars, peak,
                   processVars, xrunVars, now, lcd_writer>>

\* 'r': display_info->recording = 0
CmdStop ==
    /\ pc = "check_cmd"
    /\ cmd' = CMD_STOP_RECORDING
    /\ recording' = 0
    /\ log' = <<>>
    /\ pc' = "stop_clear"
    /\ UNCHANGED <<rv, uch, xrun_count, start_time, elapsed_seconds,
                   channels_displaying, xrun_len, configVars, scaleVars, raceVars, meterVars, peak,
                   processVars, xrunVars, now, lcd_writer>>

\* 'r': clear_recording_status(); break; return 1
StopClear ==
    /\ pc = "stop_clear"
    /\ LoopWrite(ClearRecordingStatusWrite("loop"))
    /\ Return(CheckCmdResult(FALSE, cmd))
    /\ UNCHANGED <<cmd, uch, infoVars, configVars, scaleVars, raceVars, meterVars, peak, processVars,
                   xrunVars, now>>

\* 'R': display_info->recording = 1
CmdStart ==
    /\ pc = "check_cmd"
    /\ cmd' = CMD_START_RECORDING
    /\ recording' = 1
    /\ log' = <<>>
    /\ pc' = "start_clear"
    /\ UNCHANGED <<rv, uch, xrun_count, start_time, elapsed_seconds,
                   channels_displaying, xrun_len, configVars, scaleVars, raceVars, meterVars, peak,
                   processVars, xrunVars, now, lcd_writer>>

\* 'R': clear_recording_status(); time(&start_time); elapsed_seconds = 0
StartClear ==
    /\ pc = "start_clear"
    /\ LoopWrite(ClearRecordingStatusWrite("loop"))
    /\ start_time' = now
    /\ elapsed_seconds' = 0
    /\ pc' = "start_reset"
    /\ UNCHANGED <<cmd, rv, uch, recording, xrun_count, channels_displaying,
                   xrun_len, configVars, scaleVars, raceVars, meterVars, peak, processVars, xrunVars,
                   now>>

\* 'R': display_info->xrun_count = 0
StartReset ==
    /\ pc = "start_reset"
    /\ xrun_count' = 0
    /\ pc' = "start_xrun"
    /\ UNCHANGED <<cmd, rv, uch, log, recording, start_time, elapsed_seconds,
                   channels_displaying, xrun_len, configVars, scaleVars, raceVars, meterVars, peak,
                   processVars, xrunVars, now, lcd_writer>>

\* 'R': display_xrun(display_info)
StartXrun ==
    /\ pc = "start_xrun"
    /\ IF DisplayXrunGuard(channels_displaying, recording)
       THEN /\ xrun_len' = XrunTextLen(xrun_count)
            /\ LoopWrite(DisplayXrunWrite("loop", xrun_count))
       ELSE UNCHANGED <<xrun_len, log, lcd_writer>>
    /\ pc' = "start_time"
    /\ UNCHANGED <<cmd, rv, uch, recording, xrun_count, start_time,
                   elapsed_seconds, channels_displaying, configVars, scaleVars, raceVars, meterVars,
                   peak, processVars, xrunVars, now>>

\* 'R': display_time(display_info); break; return 1
StartTime ==
    /\ pc = "start_time"
    /\ LoopWrite(DisplayTimeWrite("loop", elapsed_seconds, xrun_len))
    /\ Return(CheckCmdResult(FALSE, cmd))
    /\ UNCHANGED <<cmd, uch, infoVars, configVars, scaleVars, raceVars, meterVars, peak, processVars,
                   xrunVars, now>>

\* 'x': if (recording) clear_recording_status()
CmdExit ==
    /\ pc = "check_cmd"
    /\ cmd' = CMD_EXIT
    /\ IF recording # 0
       THEN /\ log' = <<ClearRecordingStatusWrite("loop")>>
            /\ lcd_writer' = ClearRecordingStatusWrite("loop").ctx
       ELSE /\ log' = <<>>
            /\ UNCHANGED lcd_writer
    /\ pc' = "exit_clear"
    /\ UNCHANGED <<rv, uch, infoVars, configVars, scaleVars, raceVars, meterVars, peak, processVars,
                   xrunVars, now>>

\* 'x': clear_display(display_info); return 0
ExitClear ==
    /\ pc = "exit_clear"
    /\ LET ws == ClearDisplayWrites("loop", channels_displaying)
       IN  /\ log' = log \o ws
           /\ lcd_writer' = IF ws = <<>> THEN lcd_writer ELSE ws[1].ctx
    /\ Return(CheckCmdResult(FALSE, cmd))
    /\ UNCHANGED <<cmd, uch, infoVars, configVars, scaleVars, raceVars, meterVars, peak, processVars,
                   xrunVars, now>>

(* ---------------- main loop and update_display (display loop) --------- *)

\* a drain that forgets the reset
DrainKeepsPeak(p) == p

\* the peak written back by the drain: channel_info[channel].peak = 0.0f
DrainedPeak(p) == 0

\* while (check_cmd(..)) is true: update_display is entered
LoopEnter ==
    /\ pc = "ret"
    /\ rv # 0
    /\ cmd' = NoCmd
    /\ log' = <<>>
    /\ uch' = 0
    /\ pc' = IF channels_displaying # 0 THEN "drain_read" ELSE "sleep"
    /\ UNCHANGED <<rv, infoVars, configVars, scaleVars, raceVars, meterVars, peak, processVars,
                   xrunVars, now, lcd_writer>>

\* while (check_cmd(..)) is false: the final clear_display of main; return 0
LoopExit ==
    /\ pc = "ret"
    /\ rv = 0
    /\ cmd' = NoCmd
    /\ LET ws == ClearDisplayWrites("loop", channels_displaying)
       IN  /\ log' = ws
           /\ lcd_writer' = IF ws = <<>> THEN lcd_writer ELSE ws[1].ctx
    /\ pc' = "done"
    /\ UNCHANGED <<rv, uch, infoVars, configVars, scaleVars, raceVars, meterVars, peak, processVars,
                   xrunVars, now>>

\* info->last_peak = info->peak
DrainRead ==
    /\ pc = "drain_read"
    /\ last_peak' = [last_peak EXCEPT ![uch] = peak[uch]]
    /\ pc' = "drain_zero"
    /\ lost' = 0 /\ pcounted' = FALSE
    /\ UNCHANGED <<cmd, rv, uch, log, infoVars, configVars, scaleVars, dpeak, dtime, db,
                   age, snapAge, peak, processVars, xrunVars, now, lcd_writer>>

\* channel_info[channel].peak = 0.0f
DrainZero ==
    /\ pc = "drain_zero"
    /\ peak' = [peak EXCEPT ![uch] = DrainedPeak(peak[uch])]
    /\ pc' = "render"
    /\ UNCHANGED <<cmd, rv, uch, log, infoVars, configVars, scaleVars, raceVars, meterVars,
                   processVars, xrunVars, now, lcd_writer>>

\* a loop over every port, displayed or not
MoreChannelsAllPorts(next, displaying) == next < MAX_CHANNELS

\* the test of the loop of update_display: channel < channels_displaying
MoreChannels(next, displaying) == next < displaying

\* info->db = ...; display_db(info) or display_meter(info); channel++
Render ==
    /\ pc = "render"
    /\ LET d == Decibels(last_peak[uch], ref_lev)
           size == iec_scale(d, CONSOLE_WIDTH)
           ph == PeakHold(size, dpeak[uch], dtime[uch], decay_len)
           snap == size > dpeak[uch]
           assigned == snap \/ dtime[uch] > decay_len
           cap == DtimeCap(decay_len)
       IN  /\ db' = [db EXCEPT ![uch] = d]
           /\ IF decibels_mode = 1
              THEN /\ LoopWrite(DisplayDbWrite("loop", chan[uch], d))
                   /\ UNCHANGED <<dpeak, dtime, age, snapAge>>
              ELSE /\ dpeak' = [dpeak EXCEPT ![uch] = ph[1]]
                   /\ dtime' = [dtime EXCEPT ![uch] = Min(ph[2], cap)]
                   /\ age' = [age EXCEPT ![uch] =
                                 IF assigned THEN 0 ELSE Min(age[uch] + 1, cap)]
                   /\ snapAge' = [snapAge EXCEPT ![uch] =
                                 IF snap THEN 0 ELSE Min(snapAge[uch] + 1, cap)]
                   /\ LoopWrite(DisplayMeterWrite("loop", chan[uch], size, ph[1]))
    /\ IF MoreChannels(uch + 1, channels_displaying)
       THEN /\ uch' = uch + 1
            /\ pc' = "drain_read"
       ELSE /\ uch' = 0
            /\ pc' = "time_check"
    /\ lost' = 0 /\ pcounted' = FALSE
    /\ UNCHANGED <<cmd, rv, infoVars, configVars, scaleVars, last_peak, peak, processVars,
                   xrunVars, now>>

\* if (recording) { seconds = time(NULL) - start_time; if changed: redraw }
TimeCheck ==
    /\ pc = "time_check"
    /\ LET seconds == now - start_time
       IN  IF recording # 0 /\ seconds # elapsed_seconds
           THEN /\ elapsed_seconds' = seconds
                /\ LoopWrite(DisplayTimeWrite("loop", seconds, xrun_len))
           ELSE UNCHANGED <<elapsed_seconds, log, lcd_writer>>
    /\ pc' = "sleep"
    /\ UNCHANGED <<cmd, rv, uch, recording, xrun_count, start_time,
                   channels_displaying, xrun_len, configVars, scaleVars, raceVars, meterVars, peak,
                   processVars, xrunVars, now>>

\* fsleep(1.0f / update_rate), then the next check_cmd
Sleep ==
    /\ pc = "sleep"
    /\ pc' = "check_cmd"
    /\ log' = <<>>
    /\ UNCHANGED <<cmd, rv, uch, infoVars, configVars, scaleVars, raceVars, meterVars, peak,
                   processVars, xrunVars, now, lcd_writer>>

(* ------------------- process_peak (JACK process callback) ------------- *)

\* a sampler that stores every sample
ExceedsAlways(s, p) == TRUE

\* the test of process_peak: the sample replaces the peak it was compared with
Exceeds(s, p) == s > p

\* after frame i of channel: the next frame, the next channel, or return 0
ProcessAdvance ==
    IF pfr + 1 < MaxFrames
    THEN /\ pfr' = pfr + 1
         /\ ppc' = "load"
         /\ UNCHANGED pch
    ELSE IF pch + 1 < channels
    THEN /\ pch' = pch + 1
         /\ pfr' = 0
         /\ ppc' = "load"
    ELSE /\ pch' = 0
         /\ pfr' = 0
         /\ ppc' = "idle"

\* JACK calls process_peak with nframes = MaxFrames
ProcessStart ==
    /\ ppc = "idle"
    /\ ppc' = "load"
    /\ pch' = 0
    /\ pfr' = 0
    /\ pcounted' = FALSE
    /\ UNCHANGED <<ps, lost, loopVars, infoVars, configVars, scaleVars, meterVars, peak,
                   xrunVars, now, lcd_writer>>

\* s = fabs(in[i]); if (s > info->peak)
ProcessLoad ==
    /\ ppc = "load"
    /\ \E s \in Samples :
          IF Exceeds(s, peak[pch])
          THEN /\ ps' = s
               /\ ppc' = "store"
               /\ UNCHANGED <<pch, pfr>>
          ELSE /\ ps' = 0
               /\ ProcessAdvance
    /\ UNCHANGED <<loopVars, infoVars, configVars, scaleVars, raceVars, meterVars, peak, xrunVars,
                   now, lcd_writer>>

\* info->peak = s
ProcessStore ==
    /\ ppc = "store"
    /\ peak' = [peak EXCEPT ![pch] = ps]
    /\ ps' = 0
    /\ ProcessAdvance
    /\ IF pc = "drain_zero" /\ pch = uch /\ ~pcounted
       THEN lost' = Min(lost + 1, MaxLost) /\ pcounted' = TRUE
       ELSE UNCHANGED raceVars
    /\ UNCHANGED <<loopVars, infoVars, configVars, scaleVars, meterVars, xrunVars, now,
                   lcd_writer>>

(* ------------------- increment_xrun (JACK xrun callback) -------------- *)

\* display_info->xrun_count++ : the load
XrunLoad ==
    /\ xpc = "idle"
    /\ xrun_count < MaxXrun
    /\ xtmp' = xrun_count
    /\ xpc' = "store"
    /\ UNCHANGED <<loopVars, infoVars, configVars, scaleVars, raceVars, meterVars, peak,
                   processVars, now, lcd_writer>>

\* the increment written as a decrement
XrunDecremented(loaded) == loaded - 1

\* the value xrun_count++ stores for the value it loaded
XrunIncremented(loaded) == loaded + 1

\* display_info->xrun_count++ : the store
XrunStore ==
    /\ xpc = "store"
    /\ xrun_count' = XrunIncremented(xtmp)
    /\ xtmp' = 0
    /\ xpc' = "guard"
    /\ UNCHANGED <<loopVars, recording, start_time, elapsed_seconds,
                   channels_displaying, xrun_len, configVars, scaleVars, raceVars, meterVars, peak,
                   processVars, now, lcd_writer>>

\* display_xrun from the callback: its guard
XrunGuard ==
    /\ xpc = "guard"
    /\ xpc' = IF DisplayXrunGuard(channels_displaying, recording)
              THEN "write" ELSE "idle"
    /\ UNCHANGED <<xtmp, loopVars, infoVars, configVars, scaleVars, raceVars, meterVars, peak,
                   processVars, now, lcd_writer>>

\* display_xrun from the callback: sprintf and write_buffer_to_lcd; return 0
XrunWrite ==
    /\ xpc = "write"
    /\ xrun_len' = XrunTextLen(xrun_count)
    /\ lcd_writer' = DisplayXrunWrite("xrun", xrun_count).ctx
    /\ xpc' = "idle"
    /\ UNCHANGED <<xtmp, loopVars, recording, xrun_count, start_time,
                   elapsed_seconds, channels_displaying, configVars, scaleVars, raceVars, meterVars,
                   peak, processVars, now>>

(* ------------------------------ wall clock ---------------------------- *)

\* a second of wall-clock time passes
ClockTick ==
    /\ now < MaxTime
    /\ now' = now + 1
    /\ UNCHANGED <<loopVars, infoVars, configVars, scaleVars, raceVars, meterVars, peak,
                   processVars, xrunVars, lcd_writer>>

(* ------------------------------ startup of main ----------------------- *)

\* the positions of main before its loop, and the two ways startup ends the
\* process
StartupPositions ==
    {"make_fifo", "fifo_check", "open_lcd", "startup_clear", "client_open",
     "register_ports", "activate", "connect", "exit1", "aborted"}

\* what no startup step changes
startupFixed == <<cmd, rv, uch, infoVars, decibels_mode, update_rate, ref_lev,
                  meterVars, peak, processVars, xrunVars, now, lcd_writer,
                  scaleVars, raceVars>>

\* if (!fifo) fifo = make_fifo(DEFAULT_FIFO_NAME): when the open fails,
\* fdopen(-1) is NULL and setbuf(NULL, NULL) is undefined: the process
\* aborts there or make_fifo returns NULL
MakeFifo ==
    /\ pc = "make_fifo"
    /\ IF fifo = "NULL"
       THEN \/ fifo' = "open" /\ pc' = "fifo_check"
            \/ fifo' = "NULL" /\ pc' = "fifo_check"
            \/ fifo' = "NULL" /\ pc' = "aborted"
       ELSE fifo' = fifo /\ pc' = "fifo_check"
    /\ UNCHANGED <<startupFixed, log, chan, channels, decay_len, lcd>>

\* if (!fifo) { debug(1, "Unable to open FIFO"); exit(1); }
FifoCheck ==
    /\ pc = "fifo_check"
    /\ pc' = IF fifo = "NULL" THEN "exit1" ELSE "open_lcd"
    /\ UNCHANGED <<startupFixed, log, chan, channels, decay_len, lcd, fifo>>

\* lcd = open(lcd_device, O_WRONLY): the result is logged and never tested
OpenLcd ==
    /\ pc = "open_lcd"
    /\ lcd' \in {"open", "failed"}
    /\ pc' = "startup_clear"
    /\ UNCHANGED <<startupFixed, log, chan, channels, decay_len, fifo>>

\* clear_display(&display_info) before the client is opened
StartupClear ==
    /\ pc = "startup_clear"
    /\ log' = ClearDisplayWrites("loop", channels_displaying)
    /\ pc' = "client_open"
    /\ UNCHANGED <<startupFixed, chan, channels, decay_len, lcd, fifo>>

\* jack_client_open: exit(1) when it returns 0
ClientOpen ==
    /\ pc = "client_open"
    /\ \E ok \in BOOLEAN : pc' = IF ok THEN "register_ports" ELSE "exit1"
    /\ UNCHANGED <<startupFixed, log, chan, channels, decay_len, lcd, fifo>>

\* jack_port_register for each channel: exit(1) when one fails
RegisterPorts ==
    /\ pc = "register_ports"
    /\ \E ok \in BOOLEAN : pc' = IF ok THEN "activate" ELSE "exit1"
    /\ UNCHANGED <<startupFixed, log, chan, channels, decay_len, lcd, fifo>>

\* jack_activate: exit(1) when it fails
Activate ==
    /\ pc = "activate"
    /\ \E ok \in BOOLEAN : pc' = IF ok THEN "connect" ELSE "exit1"
    /\ UNCHANGED <<startupFixed, log, chan, channels, decay_len, lcd, fifo>>

\* the connection loop over the argc - optind port names, decay_len, and
\* the first check_cmd of the loop
Connect ==
    /\ pc = "connect"
    /\ \E ports \in 0 .. MAX_CHANNELS :
          /\ channels' = ChannelsAfterStartup(ports)
          /\ chan' = [c \in Channels |-> ChannelField(ports, c)]
    /\ decay_len' = DecayLen(update_rate)
    /\ log' = <<>>
    /\ pc' = "check_cmd"
    /\ UNCHANGED <<startupFixed, lcd, fifo>>

StartupNext ==
    \/ MakeFifo
    \/ FifoCheck
    \/ OpenLcd
    \/ StartupClear
    \/ ClientOpen
    \/ RegisterPorts
    \/ Activate
    \/ Connect

(* --------------------------- iec_scale on its own --------------------- *)

\* iec_scale(db1, size) and iec_scale(db2, size)
ScaleApply ==
    /\ sc_in # <<>>
    /\ sc_out = <<>>
    /\ sc_out' = <<iec_scale(sc_in[1], sc_in[3]), iec_scale(sc_in[2], sc_in[3])>>
    /\ UNCHANGED <<programVars, sc_in>>

(* ---------------------------- specification --------------------------- *)

\* the display loop of main
LoopNext ==
    \/ CmdReadError
    \/ CmdIgnored
    \/ CmdChannels
    \/ SetChannels
    \/ CmdStop
    \/ StopClear
    \/ CmdStart
    \/ StartClear
    \/ StartReset
    \/ StartXrun
    \/ StartTime
    \/ CmdExit
    \/ ExitClear
    \/ LoopEnter
    \/ LoopExit
    \/ DrainRead
    \/ DrainZero
    \/ Render
    \/ TimeCheck
    \/ Sleep

\* the process callback
ProcessNext ==
    \/ ProcessStart
    \/ ProcessLoad
    \/ ProcessStore

\* the xrun callback
XrunNext ==
    \/ XrunLoad
    \/ XrunStore
    \/ XrunGuard
    \/ XrunWrite

Next == LoopNext \/ ProcessNext \/ XrunNext \/ ClockTick

\* the whole program
Spec == Init /\ [][Next]_vars

(***************************************************************************)
(* process_peak reads and writes only channel_info[].peak and its locals;  *)
(* increment_xrun and the clock read and write only xrun_count, xrun_len,  *)
(* the lcd and the time.  The properties of the status row and of the      *)
(* commands are therefore checked with the display loop running against    *)
(* the xrun callback and the clock (SpecStatus), the properties of the     *)
(* peak capture with the display loop running against process_peak in      *)
(* numeric mode (SpecAudio), and the properties of the peak hold with the  *)
(* display loop running against process_peak in bar mode with one port     *)
(* named at startup (SpecHold).                                            *)
(***************************************************************************)

\* started with -n (numeric mode)
InitAudio == Init /\ decibels_mode = 1

\* started in bar mode with one port named
InitHold == Init /\ decibels_mode = 0 /\ channels = 1

\* main after its options are parsed: display_info and channel_info zeroed,
\* channels = MAX_CHANNELS, the control stream NULL or made by option -c
InitStartup ==
    /\ pc = "make_fifo" /\ cmd = NoCmd /\ rv = 1 /\ uch = 0 /\ log = <<>>
    /\ recording = 0 /\ xrun_count = 0 /\ start_time = 0 /\ elapsed_seconds = 0
    /\ channels_displaying = 0 /\ xrun_len = 0
    /\ decibels_mode \in {0, 1}
    /\ update_rate \in 1 .. MaxRate
    /\ ref_lev \in RefLevels
    /\ channels = MAX_CHANNELS /\ chan = [c \in Channels |-> 0]
    /\ decay_len = 0
    /\ dpeak = [c \in Channels |-> 0] /\ dtime = [c \in Channels |-> 0]
    /\ peak = [c \in Channels |-> 0] /\ last_peak = [c \in Channels |-> 0]
    /\ db = [c \in Channels |-> 0]
    /\ ppc = "idle" /\ pch = 0 /\ pfr = 0 /\ ps = 0
    /\ xpc = "idle" /\ xtmp = 0
    /\ now = 0
    /\ lcd_writer = "none"
    /\ age = [c \in Channels |-> 0] /\ snapAge = [c \in Channels |-> 0]
    /\ lcd = "unopened" /\ fifo \in {"NULL", "open"}
    /\ lost = 0 /\ pcounted = FALSE
    /\ ScaleIdle

\* startup followed by the display loop
SpecStartup == InitStartup /\ [][StartupNext \/ LoopNext \/ ClockTick]_vars

\* iec_scale called with two decibel values db1 <= db2 and a width
InitScale ==
    /\ InitProgram
    /\ decibels_mode = 0 /\ update_rate = 1
    /\ channels = MAX_CHANNELS /\ chan = [c \in Channels |-> c]
    /\ sc_in \in {in \in ScaleDbs \X ScaleDbs \X ScaleWidths : in[1] <= in[2]}
    /\ sc_out = <<>>

SpecScale == InitScale /\ [][ScaleApply]_vars

SpecStatus == Init /\ [][LoopNext \/ XrunNext \/ ClockTick]_vars

SpecAudio == InitAudio /\ [][LoopNext \/ ProcessNext]_vars

SpecHold == InitHold /\ [][LoopNext \/ ProcessNext]_vars

(* ------------------------------ properties ---------------------------- *)

\* the bytes check_cmd has a case for
CommandBytes == {CMD_NO_DISPLAY, CMD_ONE_DISPLAY, CMD_TWO_DISPLAY,
                 CMD_STOP_RECORDING, CMD_START_RECORDING, CMD_EXIT}

\* C1: when check_cmd returns after reading '0', '1' or '2',
\* channels_displaying is 0, 1 or 2 respectively and the return value does
\* not stop the loop.
C1_DisplayCommandSetsChannels ==
    pc = "ret" =>
        /\ cmd = CMD_NO_DISPLAY => channels_displaying = 0 /\ rv # 0
        /\ cmd = CMD_ONE_DISPLAY => channels_displaying = 1 /\ rv # 0
        /\ cmd = CMD_TWO_DISPLAY => channels_displaying = 2 /\ rv # 0

\* C1 witness: '2' has been processed while one channel was displayed and a
\* recording was running
C1_Witness ==
    /\ pc = "ret" /\ cmd = CMD_TWO_DISPLAY /\ channels_displaying = 2
    /\ recording = 1 /\ Len(log) = 1 /\ log[1].kind = "clear_line"

\* C2: a poll that yields no data, a read error or a byte that is no
\* command returns at once without stopping the loop, changes no field of
\* the display session and writes nothing to the display.
C2_IgnoredPollChangesNothing ==
    [][(pc = "check_cmd" /\ pc' # "check_cmd" /\ cmd' \notin CommandBytes) =>
          /\ pc' = "ret" /\ rv' # 0
          /\ UNCHANGED <<channels_displaying, recording, start_time,
                         elapsed_seconds, xrun_count, xrun_len>>
          /\ log' = <<>> /\ lcd_writer' = lcd_writer]_vars

\* C2 witness: such a poll has returned while a recording with overruns was
\* displayed
C2_Witness ==
    /\ pc = "ret" /\ cmd \in {EOF_CHAR, OTHER_BYTE}
    /\ recording = 1 /\ channels_displaying = 2 /\ xrun_count > 0

\* C3 (as claimed): after 'R' recording is set and every overrun count that
\* check_cmd wrote to the status row is 0; after 'r' recording is clear.
C3_StartShowsZeroOverruns ==
    pc = "ret" =>
        /\ cmd = CMD_START_RECORDING =>
              /\ recording = 1
              /\ \A i \in DOMAIN log : log[i].kind = "xrun" => log[i].val = 0
        /\ cmd = CMD_STOP_RECORDING => recording = 0

\* C4 (as claimed): when 'x' has been processed while recording, whatever
\* channels_displaying is, check_cmd has written the status-line clear and
\* then the clear of the display.
C4_ExitClearsStatusThenDisplay ==
    (pc = "ret" /\ cmd = CMD_EXIT /\ recording # 0) =>
        /\ Len(log) = 2
        /\ log[1].row = STATUS_ROW /\ log[1].kind = "clear_line"
        /\ log[2].row = FIRST_METER_ROW
        /\ log[2].kind \in {"clear_line", "clear_screen"}

\* C5 (as claimed): a tick lowers dpeak only hold_ticks or more ticks after
\* the tick that last set it, by a snap or by a fall, and a tick that lowers
\* dpeak resets the hold counter.
C5_HoldAfterEverySet ==
    [][\A c \in Channels :
          dpeak'[c] < dpeak[c] =>
              /\ age[c] + 1 >= decay_len
              /\ dtime'[c] = 0]_vars

\* C5 (amended): a tick lowers dpeak only hold_ticks or more ticks after the
\* tick that last snapped it up, and only a snap resets the hold counter: a
\* tick that lowers dpeak leaves the counter running.
C5_HoldAfterSnap ==
    [][\A c \in Channels :
          /\ dpeak'[c] < dpeak[c] =>
                /\ snapAge[c] + 1 >= decay_len
                /\ dtime'[c] # 0
          /\ (dtime'[c] = 0 /\ dtime[c] # 0) => dpeak'[c] > dpeak[c]]_vars

\* C5 witness: with a hold of three ticks, dpeak has fallen to the level of
\* a -40 dB interval after the hold of a snap ran out
C5_Witness ==
    \E c \in Channels :
        /\ decay_len = 3 /\ dpeak[c] = 3 /\ age[c] = 0
        /\ snapAge[c] > decay_len /\ dtime[c] > decay_len

\* C6: a bar-mode tick whose line is longer than dpeak sets dpeak to the
\* length of the line and the hold counter to 0.
C6_SnapUp ==
    [][(pc = "render" /\ pc' # "render" /\ decibels_mode = 0) =>
          LET w == log'[Len(log')]
          IN  /\ w.kind = "meter"
              /\ w.val > dpeak[uch] => dpeak'[uch] = w.val /\ dtime'[uch] = 0]_vars

\* C6 witness: a bar-mode tick has written a full-scale line and left dpeak
\* at full scale with the hold counter at 0
C6_Witness ==
    /\ pc \in {"time_check", "drain_read"} /\ decibels_mode = 0
    /\ Len(log) > 0 /\ log[Len(log)].val = CONSOLE_WIDTH
    /\ \E c \in Channels : dpeak[c] = CONSOLE_WIDTH /\ dtime[c] = 0 /\ age[c] = 0

\* C7: the drain of a channel stores the peak it reads in last_peak and then
\* leaves the peak at exactly 0, whatever it read.
C7_DrainLeavesZero ==
    [][/\ (pc = "drain_read" /\ pc' = "drain_zero") =>
              last_peak'[uch] = peak[uch]
       /\ (pc = "drain_zero" /\ pc' = "render") =>
              peak'[uch] = 0 /\ last_peak'[uch] = last_peak[uch]]_vars

\* C7 witness: a drain is complete that read a full-scale peak
C7_Witness ==
    pc = "render" /\ last_peak[uch] = 10000 /\ peak[uch] = 0

\* C8: a step lowers a channel's peak only if it is the drain's store of 0
\* for that channel, and the store of process_peak never lowers the peak
\* and never writes 0.
C8_PeakOnlyRisesBetweenDrains ==
    [][\A c \in Channels :
          /\ peak'[c] < peak[c] =>
                pc = "drain_zero" /\ pc' = "render" /\ uch = c /\ peak'[c] = 0
          /\ (ppc = "store" /\ ppc' # "store" /\ pch = c) =>
                peak'[c] >= peak[c] /\ peak'[c] > 0]_vars

\* C8 witness: process_peak is between its compare and its store while the
\* drain of the same channel is between its read and its store of 0
C8_Witness ==
    /\ ppc = "store" /\ pc = "drain_zero" /\ uch = pch
    /\ ps = 10000 /\ peak[pch] = 100

\* C9 (as claimed): whatever ports were named at startup, a tick with two
\* channels displayed writes two lines of DISPLAY_WIDTH bytes to two
\* different rows, neither the status row.
C9_TwoDistinctRows ==
    (pc = "sleep" /\ channels_displaying = 2) =>
        /\ Len(log) >= 2
        /\ log[1].len = DISPLAY_WIDTH /\ log[2].len = DISPLAY_WIDTH
        /\ log[1].row # STATUS_ROW /\ log[2].row # STATUS_ROW
        /\ log[1].row # log[2].row

\* C10 (as claimed): no write to the display is made by a callback of the
\* audio host; every write is made by the display loop.
C10_OnlyLoopWrites == lcd_writer \in {"none", "loop"}


\* C11 (as claimed): no step lowers xrun_count, whatever commands and
\* overrun notifications are processed.
C11_XrunCountNeverDecreases ==
    [][xrun_count' >= xrun_count]_vars

\* C11 (amended): the only step that lowers xrun_count is the reset of 'R',
\* which stores 0; the store of the xrun callback never lowers it, and the
\* display loop changes it in no other step.
C11_XrunCountLoweredOnlyByStart ==
    [][/\ xrun_count' < xrun_count =>
              pc = "start_reset" /\ pc' = "start_xrun" /\ xrun_count' = 0
       /\ (pc' # pc /\ pc # "start_reset") => xrun_count' = xrun_count
       /\ (xpc = "store" /\ xpc' # "store") => xrun_count' > 0]_vars

\* C11 witness: 'R' has reset the counter while the xrun callback was
\* between its load of a non-zero count and its store
C11_Witness ==
    pc = "start_xrun" /\ xrun_count = 0 /\ xpc = "store" /\ xtmp > 0


\* C12: iec_scale returns the width for every db >= 0 and every width >= 0,
\* 0 for every db < -70, and a value from 0 to the width for every db.
C12_ScaleSaturatesInRange ==
    sc_out # <<>> =>
        \A i \in {1, 2} :
            /\ sc_in[i] >= 0 => sc_out[i] = sc_in[3]
            /\ sc_in[i] < -700 => sc_out[i] = 0
            /\ 0 <= sc_out[i] /\ sc_out[i] <= sc_in[3]

\* C12 witness: iec_scale has returned the full width 20 for 0 dB and 0 for
\* a silent interval
C12_Witness ==
    /\ sc_out # <<>> /\ sc_in = <<NegInf, 0, CONSOLE_WIDTH>>
    /\ sc_out = <<0, CONSOLE_WIDTH>>

\* C13: for a fixed width iec_scale is non-decreasing in db, and between two
\* decibel values half a decibel apart, band boundaries included, it rises
\* by at most one.
C13_ScaleMonotone ==
    sc_out # <<>> =>
        /\ sc_in[1] <= sc_in[2] => sc_out[1] <= sc_out[2]
        /\ sc_in[2] - sc_in[1] <= 5 => sc_out[2] - sc_out[1] <= 1

\* C13 witness: iec_scale has been applied just below and at the -20 dB
\* boundary of two bands and has returned different lengths
C13_Witness ==
    /\ sc_out # <<>> /\ sc_in[1] = -205 /\ sc_in[2] = -200
    /\ sc_out[1] < sc_out[2]


\* C14 (as claimed): the loop of main is never at work with an unopened
\* display device or control stream: every startup fault has ended the
\* process before.
C14_LoopHasDisplayAndStream ==
    pc \notin StartupPositions => lcd = "open" /\ fifo = "open"


\* C15 (as claimed): every call of clear_display, at startup, on '0', '1',
\* '2' and 'x' and on the exit of main, writes a clear to the display: a
\* clear-screen-to-end when channels_displaying is 2 and a clear-line for
\* every other value, 0 included.
C15_EveryClearDisplayWrites ==
    [][(\/ pc = "startup_clear"
        \/ pc = "check_cmd" /\ pc' = "set_channels"
        \/ pc = "exit_clear"
        \/ pc = "ret" /\ pc' = "done") =>
           /\ Len(log') > 0
           /\ log'[Len(log')].row = FIRST_METER_ROW
           /\ log'[Len(log')].kind =
                  IF channels_displaying = 2 THEN "clear_screen" ELSE "clear_line"]_vars


\* C16 (as claimed): on every tick of the loop made while recording, whatever
\* channels_displaying is, the tick ends with elapsed_seconds equal to the
\* seconds since start_time, and it has redrawn the time field exactly when
\* that value differed from the stored elapsed_seconds.
C16_TimeFollowsClockOnEveryTick ==
    [][(pc # "sleep" /\ pc' = "sleep" /\ recording # 0) =>
           LET seconds == now - start_time
               drawn == \E i \in DOMAIN log' :
                            log'[i].kind = "time" /\ log'[i].val = seconds
           IN  /\ elapsed_seconds' = seconds
               /\ drawn <=> seconds # elapsed_seconds]_vars


\* C17 (as claimed): every bar line written has its level meter characters
\* below the peak character, and the peak character at an index of the
\* 20 bytes of content, 0 <= dpeak < CONSOLE_WIDTH, full-scale input
\* included.
C17_PeakInsideLine ==
    \A i \in DOMAIN log :
        log[i].kind = "meter" =>
            /\ 0 <= log[i].val /\ log[i].val <= log[i].pos
            /\ log[i].pos < CONSOLE_WIDTH


\* C18 (as claimed): under every interleaving of process_peak with the two
\* steps of a drain, the peaks that the drain overwrites without having read
\* them come from at most one buffer.
C18_DrainLosesAtMostOneBuffer == lost <= 1


\* C19 (as claimed): while recording is 0 no overrun text and no time text
\* is written to the status row, by the display loop or by the xrun
\* callback, under every interleaving of the two.
C19_NoStatusTextWhenNotRecording ==
    [][recording = 0 =>
           /\ ~(xpc = "write" /\ xpc' = "idle")
           /\ Len(log') > Len(log) =>
                  log'[Len(log')].kind \notin {"xrun", "time"}]_vars


\* the channel lines in a log
ChannelLines(l) == {i \in DOMAIN l : l[i].kind \in {"db", "meter"}}

=============================================================================
